---- MODULE Spec2Model ----
(***************************************************************************)
(* Model of backend/ai_scripts/ml_price_predictor.py: load_model,          *)
(* prepare_features and predict_price.                                     *)
(*                                                                         *)
(* Strings are sequences of one-character strings, so that strip(),        *)
(* lower(), split('_lag') and int() are computed and not assumed.          *)
(* Numbers are integers; the two quotients the code forms (rmse/current    *)
(* and change/current) are kept as exact fractions [n, d].                 *)
(***************************************************************************)
EXTENDS Integers, Sequences, FiniteSets, TLC

(* ------------------------------------------------------------------ *)
(* Bounds of the model                                                  *)
(* ------------------------------------------------------------------ *)
MaxLen == 5          \* longest history drawn
MaxFeat == 2         \* longest descriptor feature list drawn

(* ------------------------------------------------------------------ *)
(* Python str operations                                                *)
(* ------------------------------------------------------------------ *)
UpperLetters == << "A","B","C","D","E","F","G","H","I","J","K","L","M",
                   "N","O","P","Q","R","S","T","U","V","W","X","Y","Z" >>
LowerLetters == << "a","b","c","d","e","f","g","h","i","j","k","l","m",
                   "n","o","p","q","r","s","t","u","v","w","x","y","z" >>
Digits == << "0","1","2","3","4","5","6","7","8","9" >>
Whitespace == { " ", "\t", "\n" }

LowerChar(c) ==
    IF \E i \in 1..Len(UpperLetters) : UpperLetters[i] = c
    THEN LowerLetters[CHOOSE i \in 1..Len(UpperLetters) : UpperLetters[i] = c]
    ELSE c

\* str.lower()
lower(s) == [i \in 1..Len(s) |-> LowerChar(s[i])]

RECURSIVE lstrip(_)
lstrip(s) ==
    IF s # << >> /\ Head(s) \in Whitespace THEN lstrip(Tail(s)) ELSE s

RECURSIVE rstrip(_)
rstrip(s) ==
    IF s # << >> /\ s[Len(s)] \in Whitespace
    THEN rstrip(SubSeq(s, 1, Len(s) - 1)) ELSE s

\* str.strip()
strip(s) == rstrip(lstrip(s))

\* index of the first occurrence of sep in s, 0 when there is none
Find(s, sep) ==
    LET hits == { i \in 1..(Len(s) - Len(sep) + 1) :
                     SubSeq(s, i, i + Len(sep) - 1) = sep }
    IN IF hits = {} THEN 0
       ELSE CHOOSE i \in hits : \A j \in hits : i <= j

\* sep in s
contains(s, sep) == Find(s, sep) # 0

\* s.split(sep): the pieces between the occurrences of sep, left to right
RECURSIVE split(_, _)
split(s, sep) ==
    LET i == Find(s, sep)
    IN IF i = 0 THEN << s >>
       ELSE << SubSeq(s, 1, i - 1) >> \o split(SubSeq(s, i + Len(sep), Len(s)), sep)

DigitValue(c) == (CHOOSE i \in 1..Len(Digits) : Digits[i] = c) - 1
IsDigit(c) == \E i \in 1..Len(Digits) : Digits[i] = c

RECURSIVE DigitsValue(_)
DigitsValue(s) ==
    IF s = << >> THEN 0
    ELSE 10 * DigitsValue(SubSeq(s, 1, Len(s) - 1)) + DigitValue(s[Len(s)])

\* int(s) for a str: an optional sign and decimal digits give the number,
\* anything else raises ValueError (ok = FALSE).  The names drawn here hold
\* no padded or underscore-grouped digits, the other forms int() accepts.
int(s) ==
    LET signed == s # << >> /\ Head(s) \in { "-", "+" }
        body == IF signed THEN Tail(s) ELSE s
    IN IF body # << >> /\ \A i \in 1..Len(body) : IsDigit(body[i])
       THEN [ok |-> TRUE,
             val |-> IF signed /\ Head(s) = "-" THEN 0 - DigitsValue(body)
                     ELSE DigitsValue(body)]
       ELSE [ok |-> FALSE, val |-> 0]

(* ------------------------------------------------------------------ *)
(* String literals of the source                                        *)
(* ------------------------------------------------------------------ *)
sPrice == << "p","r","i","c","e" >>
sClose == << "C","l","o","s","e" >>
sOpen == << "O","p","e","n" >>
sHigh == << "H","i","g","h" >>
sLow == << "L","o","w" >>
sVolume == << "V","o","l","u","m","e" >>
sopen == << "o","p","e","n" >>
shigh == << "h","i","g","h" >>
slow == << "l","o","w" >>
svolume == << "v","o","l","u","m","e" >>
sclose == << "c","l","o","s","e" >>
scloselast == << "c","l","o","s","e","/","l","a","s","t" >>
sLagSep == << "_","l","a","g" >>

(* ------------------------------------------------------------------ *)
(* Values of a history cell and float()                                 *)
(* ------------------------------------------------------------------ *)
Num(i) == [t |-> "num", v |-> i]
NaN == [t |-> "nan", v |-> 0]
Text == [t |-> "str", v |-> 0]      \* a non-numeric string (a timestamp)

\* float(x): a number or NaN converts, a non-numeric string raises ValueError
float(x) ==
    IF x.t = "str" THEN [ok |-> FALSE, val |-> NaN] ELSE [ok |-> TRUE, val |-> x]

(* ------------------------------------------------------------------ *)
(* Optional values (None or a value)                                    *)
(* ------------------------------------------------------------------ *)
None == [some |-> FALSE, name |-> << >>]
Some(x) == [some |-> TRUE, name |-> x]
\* truth value of a str-or-None: None and '' are false
Truthy(opt) == opt.some /\ opt.name # << >>

(* ------------------------------------------------------------------ *)
(* History records (dicts, keys in insertion order) and pandas frames   *)
(* ------------------------------------------------------------------ *)
HasKey(rec, k) == \E i \in 1..Len(rec) : rec[i].k = k
\* dict.get(k, default)
Get(rec, k, default) ==
    IF HasKey(rec, k) THEN rec[CHOOSE i \in 1..Len(rec) : rec[i].k = k].v
    ELSE default

InSeq(x, s) == \E i \in 1..Len(s) : s[i] = x

RECURSIVE AddKeys(_, _)
AddKeys(cols, rec) ==
    IF rec = << >> THEN cols
    ELSE AddKeys(IF InSeq(Head(rec).k, cols) THEN cols ELSE Append(cols, Head(rec).k),
                 Tail(rec))

RECURSIVE UnionKeys(_, _)
UnionKeys(cols, recs) ==
    IF recs = << >> THEN cols ELSE UnionKeys(AddKeys(cols, Head(recs)), Tail(recs))

\* pd.DataFrame(list of dicts): one column per key, in order of first
\* appearance; a record without the key holds NaN there
DataFrame(recs) ==
    LET cols == UnionKeys(<< >>, recs)
    IN [columns |-> cols,
        data |-> [r \in 1..Len(recs) |->
                    [c \in 1..Len(cols) |-> Get(recs[r], cols[c], NaN)]]]

\* len(df)
NRows(df) == Len(df.data)
\* name in df.columns
InColumns(df, name) == InSeq(name, df.columns)
Positions(df, name) == { c \in 1..Len(df.columns) : df.columns[c] = name }

\* df[name] = df[src]  /  df[name] = constant: an existing column is
\* overwritten in place, a new one is appended on the right
SetColumn(df, name, vals) ==
    IF InColumns(df, name)
    THEN LET c == CHOOSE c \in Positions(df, name) : TRUE
         IN [df EXCEPT !.data = [r \in 1..NRows(df) |->
                                   [df.data[r] EXCEPT ![c] = vals[r]]]]
    ELSE [columns |-> Append(df.columns, name),
          data |-> [r \in 1..NRows(df) |-> Append(df.data[r], vals[r])]]

\* the values of the (single) column called name
ColumnValues(df, name) ==
    LET c == CHOOSE c \in Positions(df, name) : TRUE
    IN [r \in 1..NRows(df) |-> df.data[r][c]]

\* lines 69-79: OHLCV synthesis from 'price'
Synthesize(df) ==
    IF ~InColumns(df, sPrice) THEN df
    ELSE
      LET d1 == SetColumn(df, sClose, ColumnValues(df, sPrice))
          close == ColumnValues(d1, sClose)
          d2 == IF ~InColumns(d1, sopen) THEN SetColumn(d1, sOpen, close) ELSE d1
          d3 == IF ~InColumns(d2, shigh) THEN SetColumn(d2, sHigh, close) ELSE d2
          d4 == IF ~InColumns(d3, slow) THEN SetColumn(d3, sLow, close) ELSE d3
          d5 == IF ~InColumns(d4, svolume)
                THEN SetColumn(d4, sVolume, [r \in 1..NRows(d4) |-> Num(0)])
                ELSE d4
      IN d5

\* line 84: df.columns = df.columns.str.strip()
StripColumns(df) ==
    [df EXCEPT !.columns = [c \in 1..Len(df.columns) |-> strip(df.columns[c])]]

\* 1-based position of Python index k in a sequence of n elements,
\* 0 when k is out of range (IndexError)
PyIndex(n, k) ==
    LET p == IF k < 0 THEN n + k + 1 ELSE k + 1
    IN IF p \in 1..n THEN p ELSE 0

Raised == [ok |-> FALSE, val |-> NaN]

\* float(X[name]) for X = df.iloc[row]: KeyError when no column has the label;
\* with the label on several columns the lookup gives a Series, which
\* float() rejects
CellAsFloat(df, name, row) ==
    IF Cardinality(Positions(df, name)) # 1 \/ row = 0 THEN Raised
    ELSE float(df.data[row][CHOOSE c \in Positions(df, name) : TRUE])

\* line 128: float(df[col_match].iloc[-(lag_num + 1)])
LagShifted(df, col, lag_num) ==
    CellAsFloat(df, col, PyIndex(NRows(df), 0 - lag_num))

LagValue(df, col, lag_num) ==
    CellAsFloat(df, col, PyIndex(NRows(df), 0 - (lag_num + 1)))

\* lines 133, 158: float(latest[col_match]) with latest = df.iloc[-1]
LatestValue(df, col) == CellAsFloat(df, col, PyIndex(NRows(df), 0 - 1))

\* lines 108-112, 138-142: the first column equal to the name after
\* strip().lower()
ExactMatch(df, name) ==
    LET hits == { c \in 1..Len(df.columns) :
                    lower(strip(df.columns[c])) = lower(name) }
    IN IF hits = {} THEN None
       ELSE Some(df.columns[CHOOSE c \in hits : \A d \in hits : c <= d])

\* lines 116-125: the variations tried for the base of a lag feature
LagAlias(df, base_col) ==
    LET b == lower(base_col)
    IN IF b \in { sclose, scloselast }
       THEN (IF InColumns(df, sClose) THEN Some(sClose) ELSE Some(sPrice))
       ELSE IF b = sopen
       THEN (IF InColumns(df, sOpen) THEN Some(sOpen) ELSE None)
       ELSE IF b = shigh
       THEN (IF InColumns(df, sHigh) THEN Some(sHigh) ELSE None)
       ELSE IF b = slow
       THEN (IF InColumns(df, sLow) THEN Some(sLow) ELSE None)
       ELSE IF b = svolume
       THEN (IF InColumns(df, sVolume) THEN Some(sVolume) ELSE None)
       ELSE None

\* lines 146-155: the variations tried for a current-value feature
CurrentAlias(df, feat_name_clean) ==
    LET b == lower(feat_name_clean)
    IN IF b = sopen
       THEN (IF InColumns(df, sOpen) THEN Some(sOpen) ELSE Some(sPrice))
       ELSE IF b = shigh
       THEN (IF InColumns(df, sHigh) THEN Some(sHigh) ELSE Some(sPrice))
       ELSE IF b = slow
       THEN (IF InColumns(df, sLow) THEN Some(sLow) ELSE Some(sPrice))
       ELSE IF b = svolume
       THEN (IF InColumns(df, sVolume) THEN Some(sVolume) ELSE Some(sPrice))
       ELSE IF b \in { sclose, scloselast }
       THEN (IF InColumns(df, sClose) THEN Some(sClose) ELSE Some(sPrice))
       ELSE None

\* lines 108-125: col_match of the lag branch
LagColMatch(df, base_col) ==
    IF ExactMatch(df, base_col).some THEN ExactMatch(df, base_col)
    ELSE LagAlias(df, base_col)

\* lines 138-155: col_match of the current-value branch
CurrentColMatch(df, feat_name_clean) ==
    IF ExactMatch(df, feat_name_clean).some THEN ExactMatch(df, feat_name_clean)
    ELSE CurrentAlias(df, feat_name_clean)

\* lines 104-135: one lag feature; int() of the text after '_lag' may raise
ResolveLag(df, feat_name_clean) ==
    LET parts == split(feat_name_clean, sLagSep)
        base_col == parts[1]
        lag_num == int(parts[2])
        col_match == LagColMatch(df, base_col)
    IN IF ~lag_num.ok THEN Raised
       ELSE IF Truthy(col_match) /\ NRows(df) > lag_num.val
       THEN LagValue(df, col_match.name, lag_num.val)
       ELSE IF Truthy(col_match) THEN LatestValue(df, col_match.name)
       ELSE [ok |-> TRUE, val |-> Num(0)]

\* lines 138-160: one current-value feature
ResolveCurrent(df, feat_name_clean) ==
    LET col_match == CurrentColMatch(df, feat_name_clean)
    IN IF Truthy(col_match) THEN LatestValue(df, col_match.name)
       ELSE [ok |-> TRUE, val |-> Num(0)]

\* lines 99-160: the body of the loop for one feature name
ResolveFeature(df, feat_name) ==
    LET feat_name_clean == strip(feat_name)
    IN IF contains(feat_name_clean, sLagSep)
       THEN ResolveLag(df, feat_name_clean)
       ELSE ResolveCurrent(df, feat_name_clean)

\* the outcomes of prepare_features: a 1 x n array, or None; why records
\* which return produced the None (line 91 or line 166)
NoVector(why) == [ok |-> FALSE, vec |-> << >>, why |-> why]
Vector(row) == [ok |-> TRUE, vec |-> << row >>, why |-> "vector"]

RECURSIVE BuildVector(_, _, _, _)
BuildVector(df, feats, i, feature_vector) ==
    IF i > Len(feats) THEN Vector(feature_vector)
    ELSE LET r == ResolveFeature(df, feats[i])
         IN IF ~r.ok THEN NoVector("raised")
            ELSE BuildVector(df, feats, i + 1, Append(feature_vector, r.val))

FeatureLoopFromSecond(df, feats) == BuildVector(df, feats, 2, << >>)

\* lines 97-162: the loop over required_features and the reshape(1, -1)
FeatureLoop(df, feats) == BuildVector(df, feats, 1, << >>)

\* lines 66-84: the frame the features are read from
Frame(recs) == StripColumns(Synthesize(DataFrame(recs)))

TooShortOffByOne(df, lags) == NRows(df) < lags

\* line 90
TooShort(df, lags) == NRows(df) < lags + 1

\* lines 53-166.  A history that is no list has no .columns (AttributeError,
\* caught at line 164).  For the empty list the frame has no columns; whether
\* .str.strip() then raises depends on the pandas release, and either way the
\* result is None because 0 < lags + 1.
prepare_features(history_data, metadata) ==
    IF history_data.kind # "list" THEN NoVector("raised")
    ELSE LET df == Frame(history_data.recs)
         IN IF TooShort(df, metadata.lags) THEN NoVector("short")
            ELSE FeatureLoop(df, metadata.features)

(* ------------------------------------------------------------------ *)
(* Exact fractions for the float arithmetic of lines 215-228            *)
(* ------------------------------------------------------------------ *)
Frac(n, d) == [n |-> n, d |-> d]            \* d > 0
FLt(a, b) == a.n * b.d < b.n * a.d
FEq(a, b) == a.n * b.d = b.n * a.d
FLe(a, b) == a.n * b.d <= b.n * a.d
FSub(a, b) == Frac(a.n * b.d - b.n * a.d, a.d * b.d)
\* Python min(a, b) and max(a, b): the first argument unless the second is
\* strictly smaller (larger)
PyMin(a, b) == IF FLt(b, a) THEN b ELSE a
PyMax(a, b) == IF FLt(a, b) THEN b ELSE a

NoMetric == [some |-> FALSE, v |-> 0]       \* metrics.get('RMSE', None) is None
Metric(x) == [some |-> TRUE, v |-> x]

ConfidenceNoFloor(current_price, rmse) ==
    IF current_price > 0 /\ rmse.some /\ rmse.v # 0
    THEN FSub(Frac(1, 1), PyMin(Frac(rmse.v, current_price), Frac(1, 1)))
    ELSE Frac(5, 10)

\* lines 215-220; `rmse` in the condition is the truth value of the metric:
\* None and 0 are both false
Confidence(current_price, rmse) ==
    IF current_price > 0 /\ rmse.some /\ rmse.v # 0
    THEN LET relative_error == PyMin(Frac(rmse.v, current_price), Frac(1, 1))
         IN PyMax(Frac(3, 10), FSub(Frac(1, 1), relative_error))
    ELSE Frac(5, 10)

\* lines 223-228: (change, change_pct)
Change(predicted_price, current_price) ==
    IF current_price > 0
    THEN [change |-> predicted_price - current_price,
          change_pct |-> Frac((predicted_price - current_price) * 100, current_price)]
    ELSE [change |-> 0, change_pct |-> Frac(0, 1)]

TrendNonStrict(change_pct) ==
    IF FLe(Frac(2, 1), change_pct) THEN "Bullish"
    ELSE IF FLe(change_pct, Frac(0 - 2, 1)) THEN "Bearish"
    ELSE "Neutral"

\* lines 231-236
Trend(change_pct) ==
    IF FLt(Frac(2, 1), change_pct) THEN "Bullish"
    ELSE IF FLt(change_pct, Frac(0 - 2, 1)) THEN "Bearish"
    ELSE "Neutral"

CurrentPriceCloseFirst(recs) ==
    Get(recs[Len(recs)], sClose, Get(recs[Len(recs)], sPrice, Num(0)))

\* lines 210-211: the latest record's 'price', else its 'Close', else 0
CurrentPrice(recs) ==
    Get(recs[Len(recs)], sPrice, Get(recs[Len(recs)], sClose, Num(0)))

(* ------------------------------------------------------------------ *)
(* Inputs drawn                                                         *)
(* ------------------------------------------------------------------ *)
kTimestamp == << "t","i","m","e","s","t","a","m","p" >>
kPadClose == << " ","C","l","o","s","e"," " >>
kPadPrice == << " ","p","r","i","c","e"," " >>

fCloseLag2 == << "C","l","o","s","e","_","l","a","g","2" >>
fFoo == << "f","o","o" >>
fclose == << "c","l","o","s","e" >>
fOpen == << "O","p","e","n" >>
fOpenLag1 == << "o","p","e","n","_","l","a","g","1" >>
fFooLag1 == << "f","o","o","_","l","a","g","1" >>
fvolume == << "v","o","l","u","m","e" >>
fTimestamp == << "t","i","m","e","s","t","a","m","p" >>
fPadClose == << " ","C","l","o","s","e"," " >>
fCloseLast == << "C","l","o","s","e","/","L","a","s","t" >>
fprice == << "p","r","i","c","e" >>
fRateLagged == << "r","a","t","e","_","l","a","g","g","e","d" >>
fhigh == << "h","i","g","h" >>

\* the keys a history record carries besides its timestamp
KeyShapes ==
    { << sPrice >>, << sClose >>, << kPadClose >>, << kPadPrice >>,
      << sPrice, sClose >>, << sPrice, sOpen >>, << sPrice, sopen >>, << sPrice, kPadClose >>,
      << sclose, sClose >>, << sOpen, sClose, sVolume >> }

\* value of the i-th key of record r is base + r + 20 * (i - 1); the last
\* record may lack its first key ("hole") or hold a non-numeric string under
\* it ("text")
Schemes ==
    { [base |-> 9, defect |-> "none"], [base |-> 97, defect |-> "none"],
      [base |-> 0 - 3, defect |-> "none"], [base |-> 9, defect |-> "hole"],
      [base |-> 9, defect |-> "text"] }

HistoryRecord(r, n, shape, scheme) ==
    LET fields == [i \in 1..Len(shape) |->
                     [k |-> shape[i],
                      v |-> IF scheme.defect = "text" /\ r = n /\ i = 1 THEN Text
                            ELSE Num(scheme.base + r + 20 * (i - 1))]]
    IN << [k |-> kTimestamp, v |-> Text] >>
         \o (IF scheme.defect = "hole" /\ r = n THEN Tail(fields) ELSE fields)

\* history_data after json.loads: a list of records, or a value that is no list
Histories ==
    { [kind |-> "other", recs |-> << >>] }
    \cup { [kind |-> "list",
            recs |-> [r \in 1..n |-> HistoryRecord(r, n, shape, scheme)]] :
           n \in 0..MaxLen, shape \in KeyShapes, scheme \in Schemes }

FeatureNames ==
    << fCloseLag2, fFoo, fclose, fOpen, fOpenLag1, fFooLag1, fvolume,
       fTimestamp, fPadClose, fCloseLast, fprice, fRateLagged, fhigh >>

\* feature lists: m consecutive names of FeatureNames (cyclically) from s
FeatureLists ==
    { [i \in 1..m |-> FeatureNames[((s + i - 2) % Len(FeatureNames)) + 1]] :
        s \in 1..Len(FeatureNames), m \in 0..MaxFeat }

LagDepths == { 0, 2, 5 }
RmseValues == { NoMetric, Metric(0), Metric(2), Metric(80) }
Predictions == { 97, 98, 102, 103 }

\* the metadata files a symbol may have
Descriptors ==
    { [features |-> f, lags |-> l, metrics |-> [RMSE |-> m],
       model_type |-> "RandomForestRegressor", version |-> "1.0"] :
        f \in FeatureLists, l \in LagDepths, m \in RmseValues }

NoDescriptor ==
    [features |-> << >>, lags |-> 0, metrics |-> [RMSE |-> NoMetric],
     model_type |-> "", version |-> ""]

\* the model store for the symbol: both files readable, the .pkl missing, the
\* .json missing, a file that cannot be loaded, or a metadata file holding null
Stores ==
    { [status |-> "ok", metadata |-> d] : d \in Descriptors }
    \cup { [status |-> st, metadata |-> NoDescriptor] :
             st \in { "no_model", "no_metadata", "unreadable", "null_metadata" } }

(* ------------------------------------------------------------------ *)
(* load_model                                                           *)
(* ------------------------------------------------------------------ *)
NoneNone == [model |-> FALSE, metadata |-> [some |-> FALSE, d |-> NoDescriptor]]

load_model_ignoring_metadata(store) ==
    IF store.status = "no_model" THEN NoneNone
    ELSE [model |-> TRUE, metadata |-> [some |-> TRUE, d |-> store.metadata]]

\* lines 16-51: (model, metadata); model = FALSE and some = FALSE stand for None
load_model(store) ==
    IF store.status = "no_model" THEN NoneNone
    ELSE IF store.status = "no_metadata" THEN NoneNone
    ELSE IF store.status = "unreadable" THEN NoneNone
    ELSE IF store.status = "null_metadata"
    THEN [model |-> TRUE, metadata |-> [some |-> FALSE, d |-> NoDescriptor]]
    ELSE [model |-> TRUE, metadata |-> [some |-> TRUE, d |-> store.metadata]]

(* ------------------------------------------------------------------ *)
(* Results of predict_price                                             *)
(* ------------------------------------------------------------------ *)
NoResult == [kind |-> "none"]

\* lines 183-186
UnavailableResult ==
    [kind |-> "error", error |-> << "No trained model found for symbol" >>,
     available |-> FALSE]

\* lines 192-197
InsufficientResult(md) ==
    [kind |-> "error", error |-> << "Insufficient historical data to prepare features" >>,
     available |-> TRUE, model_type |-> md.model_type, required_lags |-> md.lags]

FailedResultUnavailable(md, e) ==
    [kind |-> "error", error |-> << "Prediction failed: ", e >>, available |-> FALSE]

\* lines 253-257
FailedResult(md, e) ==
    [kind |-> "error", error |-> << "Prediction failed: ", e >>, available |-> TRUE,
     model_type |-> md.model_type]

\* lines 204-250, for a numeric current price
SuccessResult(md, predicted_price, current_price) ==
    LET ch == Change(predicted_price, current_price)
    IN [kind |-> "success",
        predicted_price |-> predicted_price,
        current_price |-> current_price,
        predicted_change |-> ch.change,
        predicted_change_pct |-> ch.change_pct,
        trend |-> Trend(ch.change_pct),
        confidence |-> Confidence(current_price, md.metrics.RMSE),
        model_type |-> md.model_type,
        model_version |-> md.version,
        model_metrics |-> md.metrics,
        available |-> TRUE,
        method |-> "ML_RandomForest"]

(* ------------------------------------------------------------------ *)
(* predict_price as a state machine                                     *)
(* ------------------------------------------------------------------ *)
VARIABLES
    pc,              \* position in predict_price: start, loaded, prepared, done
    store,           \* the model store for the symbol
    history_data,    \* the history argument
    model,           \* TRUE once a model object is held
    metadata,        \* the loaded descriptor
    feature_vector,  \* outcome of prepare_features
    result,          \* the value returned
    calls,           \* the calls made so far, in order
    argv,            \* the command line of the process
    stdout,          \* the objects printed so far
    exit_code        \* the exit status; 0 unless sys.exit(1) was reached

vars ==
    << pc, store, history_data, model, metadata, feature_vector, result, calls,
       argv, stdout, exit_code >>

\* the state of the process around the call; predict_price prints nothing on
\* stdout and never exits
console == << argv, stdout, exit_code >>

\* predict_price called as a function: no command line
NoArgv == [argc |-> 0, history_json |-> [wellformed |-> FALSE, value |-> << >>]]

Init ==
    /\ pc = "start"
    /\ store \in Stores
    /\ history_data \in Histories
    /\ model = FALSE
    /\ metadata = NoDescriptor
    /\ feature_vector = NoVector("unset")
    /\ result = NoResult
    /\ calls = << >>
    /\ argv = NoArgv
    /\ stdout = << >>
    /\ exit_code = 0

\* lines 180-186: load_model gave None for the model or the metadata
LoadUnavailable ==
    /\ pc = "start"
    /\ LET lm == load_model(store)
       IN /\ ~lm.model \/ ~lm.metadata.some
          /\ model' = lm.model
    /\ result' = UnavailableResult
    /\ pc' = "done"
    /\ calls' = Append(calls, "load_model")
    /\ UNCHANGED << store, history_data, metadata, feature_vector >>
    /\ UNCHANGED console

\* line 180, both loaded
LoadOk ==
    /\ pc = "start"
    /\ LET lm == load_model(store)
       IN /\ lm.model /\ lm.metadata.some
          /\ model' = TRUE
          /\ metadata' = lm.metadata.d
    /\ pc' = "loaded"
    /\ calls' = Append(calls, "load_model")
    /\ UNCHANGED << store, history_data, feature_vector, result >>
    /\ UNCHANGED console

PrepareNoneRetry ==
    /\ pc = "loaded"
    /\ Len(calls) < 4
    /\ LET fv == prepare_features(history_data, metadata)
       IN /\ ~fv.ok
          /\ feature_vector' = fv
    /\ pc' = "start"
    /\ calls' = Append(calls, "prepare_features")
    /\ UNCHANGED << store, history_data, model, metadata, result >>
    /\ UNCHANGED console

\* lines 189-197: prepare_features gave None
PrepareNone ==
    /\ pc = "loaded"
    /\ LET fv == prepare_features(history_data, metadata)
       IN /\ ~fv.ok
          /\ feature_vector' = fv
    /\ result' = InsufficientResult(metadata)
    /\ pc' = "done"
    /\ calls' = Append(calls, "prepare_features")
    /\ UNCHANGED << store, history_data, model, metadata >>
    /\ UNCHANGED console

\* line 189, a vector came back
PrepareVector ==
    /\ pc = "loaded"
    /\ LET fv == prepare_features(history_data, metadata)
       IN /\ fv.ok
          /\ feature_vector' = fv
    /\ pc' = "prepared"
    /\ calls' = Append(calls, "prepare_features")
    /\ UNCHANGED << store, history_data, model, metadata, result >>
    /\ UNCHANGED console

\* lines 201, 252-257: model.predict raises (wrong shape, a value it rejects,
\* an internal error); the model is opaque, so this may always happen
InferRaises ==
    /\ pc = "prepared"
    /\ result' = FailedResult(metadata, "model.predict")
    /\ pc' = "done"
    /\ calls' = Append(calls, "predict")
    /\ UNCHANGED << store, history_data, model, metadata, feature_vector >>
    /\ UNCHANGED console

\* lines 201-215, 252-257: the prediction is made, and the comparison
\* current_price > 0 raises TypeError for a price that is no number
EstimateRaises ==
    /\ pc = "prepared"
    /\ Len(feature_vector.vec[1]) > 0
    /\ CurrentPrice(history_data.recs).t # "num"
    /\ result' = FailedResult(metadata, "TypeError")
    /\ pc' = "done"
    /\ calls' = Append(calls, "predict")
    /\ UNCHANGED << store, history_data, model, metadata, feature_vector >>
    /\ UNCHANGED console

\* lines 201-250: the model returns a price for a row of at least one column
InferSuccess ==
    /\ pc = "prepared"
    /\ Len(feature_vector.vec[1]) > 0
    /\ CurrentPrice(history_data.recs).t = "num"
    /\ \E predicted_price \in Predictions :
         result' = SuccessResult(metadata, predicted_price,
                                 CurrentPrice(history_data.recs).v)
    /\ pc' = "done"
    /\ calls' = Append(calls, "predict")
    /\ UNCHANGED << store, history_data, model, metadata, feature_vector >>
    /\ UNCHANGED console

Next ==
    \/ LoadUnavailable
    \/ LoadOk
    \/ PrepareNone
    \/ PrepareVector
    \/ InferRaises
    \/ EstimateRaises
    \/ InferSuccess

Spec == Init /\ [][Next]_vars

(* ------------------------------------------------------------------ *)
(* The command-line entry point                                         *)
(* ------------------------------------------------------------------ *)
\* the history argument as text: the serialisation of a JSON value, or text
\* that is no JSON
Serialised(h) == [wellformed |-> TRUE, value |-> h]
Malformed == [wellformed |-> FALSE, value |-> << >>]

\* sys.argv: the script name alone, script and symbol, or all three
Argvs ==
    { [argc |-> n, history_json |-> Malformed] : n \in { 1, 2 } }
    \cup { [argc |-> 3, history_json |-> Malformed] }
    \cup { [argc |-> 3, history_json |-> Serialised(h)] : h \in Histories }

\* line 271: the parsed value, or JSONDecodeError
json_loads(text) ==
    IF text.wellformed THEN [ok |-> TRUE, value |-> text.value]
    ELSE [ok |-> FALSE, value |-> << >>]

\* lines 261-263
UsageResult ==
    [kind |-> "error",
     error |-> << "Usage: python ml_price_predictor.py <symbol> <history_json>" >>]

\* lines 275-277
InvalidJsonResult == [kind |-> "error", error |-> << "Invalid JSON: ", "JSONDecodeError" >>]

\* json.dumps of a result dict: the object with the keys and values of the
\* dict (kind is the model's tag of the variant and is no key of the dict)
json_dumps(r) == [k \in (DOMAIN r) \ { "kind" } |-> r[k]]

\* history_data before line 271 has run
Unparsed == [kind |-> "other", recs |-> << >>]

InitMain ==
    /\ pc = "main"
    /\ store \in Stores
    /\ argv \in Argvs
    /\ history_data = Unparsed
    /\ model = FALSE
    /\ metadata = NoDescriptor
    /\ feature_vector = NoVector("unset")
    /\ result = NoResult
    /\ calls = << >>
    /\ stdout = << >>
    /\ exit_code = 0

\* lines 260-265: fewer than two arguments
MainUsage ==
    /\ pc = "main"
    /\ argv.argc < 3
    /\ stdout' = Append(stdout, json_dumps(UsageResult))
    /\ exit_code' = 1
    /\ pc' = "exit"
    /\ UNCHANGED << store, history_data, model, metadata, feature_vector,
                    result, calls, argv >>

\* lines 270-271, 274-279: json.loads raises JSONDecodeError
MainInvalidJson ==
    /\ pc = "main"
    /\ argv.argc >= 3
    /\ ~json_loads(argv.history_json).ok
    /\ stdout' = Append(stdout, json_dumps(InvalidJsonResult))
    /\ exit_code' = 1
    /\ pc' = "exit"
    /\ UNCHANGED << store, history_data, model, metadata, feature_vector,
                    result, calls, argv >>

\* lines 270-272: the history parses and predict_price is entered
MainCall ==
    /\ pc = "main"
    /\ argv.argc >= 3
    /\ json_loads(argv.history_json).ok
    /\ history_data' = json_loads(argv.history_json).value
    /\ pc' = "start"
    /\ UNCHANGED << store, model, metadata, feature_vector, result, calls,
                    argv, stdout, exit_code >>

\* line 273: predict_price has returned and its result is printed; the
\* process then ends with status 0
MainPrint ==
    /\ pc = "done"
    /\ argv.argc >= 3
    /\ stdout' = Append(stdout, json_dumps(result))
    /\ pc' = "exit"
    /\ UNCHANGED << store, history_data, model, metadata, feature_vector,
                    result, calls, argv, exit_code >>

\* lines 259-285.  The handler of lines 280-285 prints an object with the
\* single key error, like the two above; with a descriptor that is a JSON
\* object nothing in predict_price or json.dumps raises past line 273, so no
\* step of this model enters it.
NextMain ==
    \/ MainUsage
    \/ MainInvalidJson
    \/ MainCall
    \/ LoadUnavailable
    \/ LoadOk
    \/ PrepareNone
    \/ PrepareVector
    \/ InferRaises
    \/ EstimateRaises
    \/ InferSuccess
    \/ MainPrint

SpecMain == InitMain /\ [][NextMain]_vars

(* ------------------------------------------------------------------ *)
(* Vocabulary of the properties                                         *)
(* ------------------------------------------------------------------ *)
\* prepare_features has just run: its outcome is in feature_vector
AfterPrepare == Len(calls) = 2
\* the history is a list of at least lags + 1 records
Enough ==
    history_data.kind = "list" /\ Len(history_data.recs) >= metadata.lags + 1
\* a name of the form <base>_lag<N>, N a decimal number
IsLagName(f) ==
    /\ contains(strip(f), sLagSep)
    /\ int(split(strip(f), sLagSep)[2]).ok
    /\ int(split(strip(f), sLagSep)[2]).val >= 0
\* a plain column name
IsPlainName(f) == ~contains(strip(f), sLagSep)
BaseOf(f) == IF IsLagName(f) THEN split(strip(f), sLagSep)[1] ELSE strip(f)
LagOf(f) == int(split(strip(f), sLagSep)[2]).val
\* the 1-based row a feature reads in a frame of n rows: N records before the
\* latest one when there are more than N records, the latest one otherwise
RowOf(f, n) == IF IsLagName(f) /\ n > LagOf(f) THEN n - LagOf(f) ELSE n
AliasNames == { sopen, shigh, slow, svolume, sclose, scloselast }
CanonicalOf(b) ==
    IF b = sopen THEN sOpen ELSE IF b = shigh THEN sHigh
    ELSE IF b = slow THEN sLow ELSE IF b = svolume THEN sVolume ELSE sClose
Zero == [ok |-> TRUE, val |-> Num(0)]
FeatureIndexes == 1..Len(metadata.features)

(* ------------------------------------------------------------------ *)
(* C1                                                                   *)
(* ------------------------------------------------------------------ *)
\* C1: when the model artifact or the metadata is missing or unreadable,
\* predict_price ends with an error result whose available is false, for
\* every history, having called load_model only (neither prepare_features
\* nor model.predict).
C1_UnavailableModel ==
    (pc # "start" /\ store.status # "ok")
        => /\ pc = "done"
           /\ result.kind = "error"
           /\ result.available = FALSE
           /\ calls = << "load_model" >>
           /\ feature_vector = NoVector("unset")

\* the metadata file is missing and the history is no list at all
C1_Witness ==
    /\ pc = "done"
    /\ store.status = "no_metadata"
    /\ history_data.kind = "other"
    /\ result.kind = "error" /\ result.available = FALSE

(* ------------------------------------------------------------------ *)
(* C2                                                                   *)
(* ------------------------------------------------------------------ *)
\* C2: with a loaded descriptor and a history of fewer than lags + 1 records,
\* prepare_features gives None and predict_price returns an error result with
\* available true and required_lags equal to the descriptor's lags, without
\* calling the model.
C2_InsufficientData ==
    (Len(calls) >= 2 /\ history_data.kind = "list"
        /\ Len(history_data.recs) < store.metadata.lags + 1)
        => /\ ~feature_vector.ok
           /\ pc = "done"
           /\ result.kind = "error"
           /\ result.available = TRUE
           /\ result.required_lags = store.metadata.lags
           /\ calls = << "load_model", "prepare_features" >>

\* lags = 5 and 3 records give required_lags = 5
C2_Witness ==
    /\ pc = "done"
    /\ store.status = "ok" /\ store.metadata.lags = 5
    /\ history_data.kind = "list" /\ Len(history_data.recs) = 3
    /\ result.kind = "error" /\ result.available = TRUE
    /\ result.required_lags = 5

(* ------------------------------------------------------------------ *)
(* C3                                                                   *)
(* ------------------------------------------------------------------ *)
\* C3: for a lag feature <base>_lagN whose base resolves to a column of the
\* frame, the resolved value is that column's value N records before the
\* latest one (row length - N counted from 1) when the history has more than
\* N records, and the latest record's value of that column otherwise.
C3_LagValue ==
    (AfterPrepare /\ Enough) =>
      LET df == Frame(history_data.recs)
          n == Len(history_data.recs)
      IN \A i \in FeatureIndexes :
           LET f == metadata.features[i]
               col == LagColMatch(df, BaseOf(f))
           IN (IsLagName(f) /\ Truthy(col)
                 /\ Cardinality(Positions(df, col.name)) = 1)
              => LET c == CHOOSE c \in Positions(df, col.name) : TRUE
                     cell == IF n > LagOf(f) THEN df.data[n - LagOf(f)][c]
                             ELSE df.data[n][c]
                 IN cell.t # "str"
                    => /\ ResolveFeature(df, f) = [ok |-> TRUE, val |-> cell]
                       /\ feature_vector.ok => feature_vector.vec[1][i] = cell

\* Close_lag2 over Close values 10, 11, 12, 13, 14 resolves to 12
C3_Witness ==
    /\ AfterPrepare
    /\ history_data.kind = "list" /\ Len(history_data.recs) = 5
    /\ \A r \in 1..5 : Get(history_data.recs[r], sClose, NaN) = Num(9 + r)
    /\ ~HasKey(history_data.recs[1], sPrice)
    /\ metadata.features = << fCloseLag2 >>
    /\ feature_vector.ok
    /\ feature_vector.vec = << << Num(12) >> >>

(* ------------------------------------------------------------------ *)
(* C4                                                                   *)
(* ------------------------------------------------------------------ *)
\* the column the stated chain selects: the exact match, else for an alias
\* name its canonical column, else 'price', each only when the frame has it
ChainColumn(df, b) ==
    IF ExactMatch(df, b).some THEN ExactMatch(df, b)
    ELSE IF lower(b) \in AliasNames /\ InColumns(df, CanonicalOf(lower(b)))
    THEN Some(CanonicalOf(lower(b)))
    ELSE IF lower(b) \in AliasNames /\ InColumns(df, sPrice) THEN Some(sPrice)
    ELSE None

\* C4: lag-feature bases and current-value names resolve through the same
\* chain: exact match, then the alias table with 'price' as the fallback of
\* every alias, and when no existing column is found the value is 0.0 and
\* resolution does not fail.
C4_SameChain ==
    (AfterPrepare /\ Enough) =>
      LET df == Frame(history_data.recs)
      IN \A i \in FeatureIndexes :
           LET f == metadata.features[i]
               chain == ChainColumn(df, BaseOf(f))
               col == IF IsLagName(f) THEN LagColMatch(df, BaseOf(f))
                      ELSE CurrentColMatch(df, BaseOf(f))
           IN (IsLagName(f) \/ IsPlainName(f))
              => IF chain.some THEN col = chain
                 ELSE ResolveFeature(df, f) = Zero

(* ------------------------------------------------------------------ *)
(* C5                                                                   *)
(* ------------------------------------------------------------------ *)
\* C5: when the records supply a key whose trimmed, case-folded name equals
\* the feature's (base) name, with or without a 'price' key beside it, the
\* resolved value is the value supplied under such a key (in the row the
\* feature reads), whenever that value is a number or absent.
C5_SuppliedColumn ==
    (AfterPrepare /\ Enough) =>
      LET raw == DataFrame(history_data.recs)
          df == Frame(history_data.recs)
          n == Len(history_data.recs)
      IN \A i \in FeatureIndexes :
           LET f == metadata.features[i]
               supplied == { c \in 1..Len(raw.columns) :
                               lower(strip(raw.columns[c])) = lower(BaseOf(f)) }
           IN ((IsLagName(f) \/ IsPlainName(f)) /\ supplied # {}
                  /\ \A c \in supplied : raw.data[RowOf(f, n)][c].t # "str")
              => \E c \in supplied :
                   ResolveFeature(df, f)
                     = [ok |-> TRUE, val |-> raw.data[RowOf(f, n)][c]]

(* ------------------------------------------------------------------ *)
(* C6                                                                   *)
(* ------------------------------------------------------------------ *)
\* the name is a plain name or <base>_lagN in the descriptor's sense: what
\* follows '_lag', if anything, is a number
NameOf(f) == IF IsLagName(f) THEN BaseOf(f) ELSE strip(f)
Unresolvable(df, f) ==
    /\ ~ExactMatch(df, NameOf(f)).some
    /\ lower(NameOf(f)) \notin AliasNames

RemoveAt(s, i) == SubSeq(s, 1, i - 1) \o SubSeq(s, i + 1, Len(s))

\* C6: with at least lags + 1 records, a feature name (plain, or with a
\* _lagN suffix) that matches no column and has no alias contributes 0.0 at
\* its position, does not make resolution fail, and leaves the other
\* features' entries as they are without it.
C6_ZeroFill ==
    (AfterPrepare /\ Enough) =>
      LET df == Frame(history_data.recs)
      IN \A i \in FeatureIndexes :
           LET f == metadata.features[i]
               rest == FeatureLoop(df, RemoveAt(metadata.features, i))
           IN Unresolvable(df, f)
              => /\ ResolveFeature(df, f) = Zero
                 /\ feature_vector.ok = rest.ok
                 /\ feature_vector.ok
                      => /\ feature_vector.vec[1][i] = Num(0)
                         /\ RemoveAt(feature_vector.vec[1], i) = rest.vec[1]

\* the same for the names in which '_lag' is absent or followed by a number
C6_ZeroFillWellFormed ==
    (AfterPrepare /\ Enough) =>
      LET df == Frame(history_data.recs)
      IN \A i \in FeatureIndexes :
           LET f == metadata.features[i]
               rest == FeatureLoop(df, RemoveAt(metadata.features, i))
           IN ((IsLagName(f) \/ IsPlainName(f)) /\ Unresolvable(df, f))
              => /\ ResolveFeature(df, f) = Zero
                 /\ feature_vector.ok = rest.ok
                 /\ feature_vector.ok
                      => /\ feature_vector.vec[1][i] = Num(0)
                         /\ RemoveAt(feature_vector.vec[1], i) = rest.vec[1]

(* ------------------------------------------------------------------ *)
(* C7                                                                   *)
(* ------------------------------------------------------------------ *)
\* C7: a vector returned by prepare_features has one row and
\* len(features) columns, and column i holds the value resolved for
\* features[i].
C7_VectorShape ==
    (AfterPrepare /\ feature_vector.ok) =>
      LET df == Frame(history_data.recs)
      IN /\ Len(feature_vector.vec) = 1
         /\ Len(feature_vector.vec[1]) = Len(store.metadata.features)
         /\ \A i \in 1..Len(store.metadata.features) :
              ResolveFeature(df, store.metadata.features[i])
                = [ok |-> TRUE, val |-> feature_vector.vec[1][i]]

\* two features, a lagged Close and an unknown name: [[12.0, 0.0]]
C7_Witness ==
    /\ pc = "prepared"
    /\ metadata.features = << fCloseLag2, fFoo >>
    /\ feature_vector.ok
    /\ feature_vector.vec = << << Num(12), Num(0) >> >>

(* ------------------------------------------------------------------ *)
(* C8                                                                   *)
(* ------------------------------------------------------------------ *)
\* the confidence as stated: from RMSE whenever the metric is present
StatedConfidence(current, rmse) ==
    IF current > 0 /\ rmse.some
    THEN LET one == Frac(1, 1)
             q == Frac(rmse.v, current)
             rel == IF FLt(q, one) THEN q ELSE one
             c == FSub(one, rel)
         IN IF FLt(c, Frac(3, 10)) THEN Frac(3, 10) ELSE c
    ELSE Frac(1, 2)

\* C8: in a success result the confidence is max(0.3, 1 - min(rmse/current, 1))
\* when current > 0 and an RMSE metric is present, whatever its value, and
\* 0.5 when current <= 0 or no RMSE metric is present.
C8_ConfidenceFormula ==
    result.kind = "success"
        => FEq(result.confidence,
               StatedConfidence(result.current_price, metadata.metrics.RMSE))

(* ------------------------------------------------------------------ *)
(* C9                                                                   *)
(* ------------------------------------------------------------------ *)
\* C9: in every success result the confidence is at least 0.3 and at most
\* 1.0, for every current price and every RMSE metric, present or absent.
C9_ConfidenceBounds ==
    result.kind = "success"
        => /\ FLe(Frac(3, 10), result.confidence)
           /\ FLe(result.confidence, Frac(1, 1))

\* current 100 and RMSE 80: 1 - 0.8 is below the floor, confidence is 0.3
C9_Witness ==
    /\ result.kind = "success"
    /\ result.current_price = 100
    /\ metadata.metrics.RMSE = Metric(80)
    /\ FEq(result.confidence, Frac(3, 10))

(* ------------------------------------------------------------------ *)
(* C10                                                                  *)
(* ------------------------------------------------------------------ *)
\* C10: for a fixed current price > 0, a descriptor with a smaller (or equal)
\* non-negative RMSE yields a confidence at least as high: the confidence of
\* this result is not above the one any smaller stored RMSE would give.
C10_Monotone ==
    (result.kind = "success" /\ result.current_price > 0
        /\ metadata.metrics.RMSE.some)
        => \A r1 \in { m \in RmseValues : m.some } :
             r1.v <= metadata.metrics.RMSE.v
               => FLe(result.confidence, Confidence(result.current_price, r1))

(* ------------------------------------------------------------------ *)
(* C11                                                                  *)
(* ------------------------------------------------------------------ *)
\* the trend as stated, on integers: change_pct > 2 is 100 * change > 2 * current
StatedTrend(predicted, current) ==
    IF current > 0 /\ 100 * (predicted - current) > 2 * current THEN "Bullish"
    ELSE IF current > 0 /\ 100 * (predicted - current) < 0 - 2 * current
    THEN "Bearish"
    ELSE "Neutral"

\* C11: in a success result change_pct is (predicted - current) / current * 100
\* when current > 0 and 0 otherwise, and the trend is Bullish iff
\* change_pct > 2, Bearish iff change_pct < -2, Neutral otherwise (so exactly
\* 2 or -2, and every current <= 0, is Neutral).
C11_Trend ==
    result.kind = "success"
        => /\ result.trend = StatedTrend(result.predicted_price, result.current_price)
           /\ IF result.current_price > 0
              THEN FEq(result.predicted_change_pct,
                       Frac(100 * (result.predicted_price - result.current_price),
                            result.current_price))
              ELSE FEq(result.predicted_change_pct, Frac(0, 1))

\* current 100 and predicted 102: change_pct is exactly 2, the trend Neutral
C11_Witness ==
    /\ result.kind = "success"
    /\ result.current_price = 100
    /\ result.predicted_price = 102
    /\ result.trend = "Neutral"

(* ------------------------------------------------------------------ *)
(* C12                                                                  *)
(* ------------------------------------------------------------------ *)
\* C12: once the model is loaded and the features are resolved, an error
\* raised by inference does not leave predict_price: the call returns an
\* error result with available true, the descriptor's model_type and no
\* prediction fields.
C12_InferenceError ==
    (pc = "done" /\ Len(calls) = 3 /\ result.kind # "success")
        => /\ result.kind = "error"
           /\ result.available = TRUE
           /\ result.model_type = store.metadata.model_type
           /\ DOMAIN result = { "kind", "error", "available", "model_type" }

\* model.predict raised on a resolved vector
C12_Witness ==
    /\ pc = "done"
    /\ calls = << "load_model", "prepare_features", "predict" >>
    /\ feature_vector.ok
    /\ result.kind = "error"
    /\ result.error = << "Prediction failed: ", "model.predict" >>

(* ------------------------------------------------------------------ *)
(* C13                                                                  *)
(* ------------------------------------------------------------------ *)
\* the value the feature reads is in a single column and is a non-numeric
\* string, so float() raises
CastFails(df, f) ==
    LET col == IF IsLagName(f) THEN LagColMatch(df, BaseOf(f))
               ELSE CurrentColMatch(df, BaseOf(f))
    IN /\ IsLagName(f) \/ IsPlainName(f)
       /\ Truthy(col)
       /\ Cardinality(Positions(df, col.name)) = 1
       /\ df.data[RowOf(f, NRows(df))][CHOOSE c \in Positions(df, col.name) : TRUE].t
            = "str"

\* C13: the error result with required_lags is returned only for a history
\* of fewer than lags + 1 records; when the history is long enough and a
\* feature value cannot be cast to a number, no vector is produced and the
\* failure is not reported as insufficient history.
C13_CastFailureNotInsufficient ==
    (pc = "done" /\ AfterPrepare /\ Enough
        /\ \E i \in FeatureIndexes :
             CastFails(Frame(history_data.recs), metadata.features[i]))
        => /\ ~feature_vector.ok
           /\ "required_lags" \notin DOMAIN result

(* ------------------------------------------------------------------ *)
(* C15                                                                  *)
(* ------------------------------------------------------------------ *)
\* the current price as stated, searched in the latest record
StatedCurrent(recs) ==
    LET last == recs[Len(recs)]
        at(k) == last[CHOOSE i \in 1..Len(last) : last[i].k = k].v
    IN IF \E i \in 1..Len(last) : last[i].k = sPrice THEN at(sPrice)
       ELSE IF \E i \in 1..Len(last) : last[i].k = sClose THEN at(sClose)
       ELSE Num(0)

\* C15: in a success result current_price is the latest record's 'price'
\* when it has one, else its 'Close' when it has one, else 0, and
\* predicted_change is predicted_price - current_price when current_price > 0.
C15_CurrentPrice ==
    result.kind = "success"
        => /\ Num(result.current_price) = StatedCurrent(history_data.recs)
           /\ result.current_price > 0
                => result.predicted_change
                     = result.predicted_price - result.current_price

\* the latest record has 'price' and 'Close' with different values
C15_Witness ==
    /\ result.kind = "success"
    /\ LET last == history_data.recs[Len(history_data.recs)]
       IN /\ HasKey(last, sPrice) /\ HasKey(last, sClose)
          /\ Get(last, sPrice, NaN) # Get(last, sClose, NaN)
          /\ Num(result.current_price) = Get(last, sPrice, NaN)
    /\ result.current_price > 0
    /\ result.predicted_change = result.predicted_price - result.current_price

(* ------------------------------------------------------------------ *)
(* C16                                                                  *)
(* ------------------------------------------------------------------ *)
Pipeline == << "load_model", "prepare_features", "predict" >>
Rank(p) ==
    IF p = "start" THEN 0 ELSE IF p = "loaded" THEN 1
    ELSE IF p = "prepared" THEN 2 ELSE 3
IsUnavailable(r) == r.kind = "error" /\ ~r.available
IsInsufficient(r) ==
    r.kind = "error" /\ r.available /\ "required_lags" \in DOMAIN r
IsInferenceError(r) ==
    r.kind = "error" /\ r.available /\ "required_lags" \notin DOMAIN r

\* the next step of a call that has not returned.  After a successful load
\* the step is the call of prepare_features, which returns a vector or None
\* for every input, and the two Prepare actions split on exactly that.
CanProceed ==
    CASE pc = "start" -> ENABLED (LoadUnavailable \/ LoadOk)
      [] pc = "loaded" -> prepare_features(history_data, metadata).ok \in BOOLEAN
      [] pc = "prepared" -> ENABLED (InferRaises \/ EstimateRaises \/ InferSuccess)
      [] OTHER -> FALSE

IsFailureObject(o) == "error" \in DOMAIN o

\* C14: when the process has ended it has printed exactly one object, and a
\* printed object that reports a failure has both an error text and an
\* available flag that is a boolean.
C14_StructuredFailure ==
    pc = "exit"
      => /\ Len(stdout) = 1
         /\ IsFailureObject(stdout[1])
              => /\ "available" \in DOMAIN stdout[1]
                 /\ stdout[1].available \in BOOLEAN

====
